---- MODULE Spec2Model ----
(***************************************************************************)
(* Model of the Meld Studio Companion module (src/main.js): the            *)
(* MeldStudioInstance object, the WebSocket objects it creates, the        *)
(* QWebChannel it builds on the transport wrapper, and the host side of    *)
(* the registration callbacks (status, variables, feedback values).        *)
(*                                                                         *)
(* JavaScript is single threaded: every handler below runs to completion,  *)
(* so one handler is one action.  A handler is written as a chain of       *)
(* record transformers over the record Cur (the fields of `this` plus the  *)
(* objects reachable from it); Commit stores the final record.             *)
(*                                                                         *)
(* Strings the code inspects (ids, names) are sequences of characters.     *)
(***************************************************************************)
EXTENDS Integers, Sequences, FiniteSets, TLC

VARIABLES
  phase,          \* host lifecycle: "constructed", "running", "destroyed"
  qwc,            \* globalThis.QWebChannel is a function
  actionDefs,     \* last setActionDefinitions(...)
  feedbackDefs,   \* last setFeedbackDefinitions(...)
  presetDefs,     \* last setPresetDefinitions(...)
  config,         \* this.config
  ws,             \* this.ws: NULL or the id of a socket
  transport,      \* this.transport: NULL or the id of the wrapper object
  meld,           \* this.meld: NULL, UNDEFINED or the id of the channel's proxy
  sessionItems,   \* this.sessionItems, in enumeration order
  isStreaming,    \* this._isStreaming
  isRecording,    \* this._isRecording
  status,         \* last updateStatus(...)
  url,            \* the address given to the last new WebSocket(url)
  sock,           \* the WebSocket objects: readyState, 'message' listener
  chanSt,         \* this.transport.onmessage: "null", "init" or "ready"
  subscribed,     \* the signal handlers of lines 321-347 are connected
  proxy,          \* channel.objects.meld: whether it exists, and its methods
  variables,      \* values last published with setVariableValues
  fb,             \* feedback values last computed by the host (checkFeedbacks)
  lastOp,         \* the handler that ran last, with its inputs
  registrations,  \* descriptor kinds the last handler registered with the host
  sent,           \* frames written to sockets by the last handler
  logged,         \* log entries written by the last handler
  thrown          \* the last handler ended with an uncaught exception

vars == <<phase, qwc, actionDefs, feedbackDefs, presetDefs, config, ws, transport, meld, sessionItems,
          isStreaming, isRecording, status, url, sock, chanSt, subscribed, proxy,
          variables, fb, lastOp, registrations, sent, logged, thrown>>

----------------------------------------------------------------------------
(* Bounds *)

\* number of WebSocket objects created in one run
MaxSockets == 2

\* number of session items in the mirrors the generator is applied to
MaxItems == 3

----------------------------------------------------------------------------
(* JavaScript values *)

NULL == 0
UNDEFINED == -1
DefaultIndex == 9999

EmptyStr == << >>

\* values a cached remote property may hold
JsVals == {"true", "false", "undefined"}

\* !!v
ToBoolean(v) == v = "true"

\* a reference is truthy unless it is null or undefined
IsObject(ref) == ref # NULL /\ ref # UNDEFINED

----------------------------------------------------------------------------
(* Inputs: ids, names, session item sets, endpoints, method sets *)

IdA == <<"A">>
IdB == <<"B">>
IdL == <<"L">>
IdX == <<"X">>

Intro == <<"I", "n", "t", "r", "o">>
Outro == <<"O", "u", "t", "r", "o">>
Cam == <<"C", "a", "m">>

Item(id, type, name, index, current) ==
  [id |-> id, type |-> type, name |-> name, index |-> index, current |-> current]

\* values of meld.session.items the remote side may report
ItemSets ==
  { << >>,
    << Item(IdL, "layer", Cam, UNDEFINED, TRUE), Item(IdB, "scene", Outro, 1, FALSE),
       Item(IdA, "scene", Intro, 0, TRUE) >>,
    << Item(IdB, "scene", EmptyStr, UNDEFINED, FALSE) >> }

IntroLower == <<"i", "n", "t", "r", "o">>
IntroTagged == Intro \o <<" ", "(", "a", "b", "c", "1", "2", "3", "4", "5", ")">>

\* session items the remote side may report for the ids A, B and L: scenes
\* with equal names, names differing in case only, a name carrying a
\* parenthetical suffix, no name, with and without a display index
ItemPool ==
  { Item(IdA, "scene", Intro, 0, TRUE),
    Item(IdA, "scene", IntroTagged, 0, FALSE),
    Item(IdB, "scene", Outro, 1, FALSE),
    Item(IdB, "scene", Intro, 0, FALSE),
    Item(IdB, "scene", IntroLower, 0, FALSE),
    Item(IdL, "layer", Cam, UNDEFINED, TRUE),
    Item(IdL, "scene", EmptyStr, UNDEFINED, FALSE),
    Item(IdL, "scene", Outro, 1, FALSE) }

\* the session item collections over the pool, in every enumeration order
PoolItemSets ==
  UNION { { t \in [1..n -> ItemPool] :
              \A i, j \in 1..n : i < j => t[i].id # t[j].id } : n \in 0..MaxItems }

\* every value the mirror takes
Mirrors == ItemSets \cup PoolItemSets

\* scene ids the feedback instances on the surface carry
TargetIds == {IdA, IdB, IdX, EmptyStr}

Endpoint(host, port) == [host |-> host, port |-> port]
NoConfig == Endpoint("undefined", UNDEFINED)
DefaultHost == "127.0.0.1"
DefaultPort == 13376

\* config objects the host may pass; "" and 0 are a cleared field
ConfigInputs == { Endpoint("", 0), Endpoint("10.0.0.2", 9000) }

ActionIds ==
  { "toggleRecord", "toggleStream", "showScene", "setStagedScene", "showStagedScene",
    "toggleMute", "toggleMonitor", "toggleLayer", "toggleEffect", "setGain", "sendCommand" }

\* method sets the remote object may expose: this release lacks
\* setStagedScene and names the streaming toggle toggleStreaming
MethodSets == { (ActionIds \ {"toggleStream", "setStagedScene"}) \cup {"toggleStreaming"} }

\* the button presses the host delivers: action id and its scene option
Presses ==
  { [id |-> "toggleRecord", sceneId |-> EmptyStr],
    [id |-> "toggleStream", sceneId |-> EmptyStr],
    [id |-> "showScene", sceneId |-> IdA] }

Sockets == 1..MaxSockets


\* the WebSocket objects; st is the readyState refined by the pending events:
\*   "none"       not created yet
\*   "connecting" CONNECTING
\*   "open"       OPEN
\*   "closing"    CLOSING, 'close' pending
\*   "aborting"   close() during CONNECTING: 'error' then 'close' pending
\*   "failed"     'error' emitted, 'close' pending
\*   "closed"     CLOSED, 'close' emitted
NoSocket == [st |-> "none", listening |-> FALSE, init |-> "none"]

\* a closed socket emits no further event and is never written to again
ClosedSocket == [st |-> "closed", listening |-> FALSE, init |-> "none"]

NoProxy == [present |-> FALSE, methods |-> {}]

\* nothing registered with the host yet
NoDefinitions == [set |-> FALSE, choices |-> << >>, default |-> EmptyStr]

NoPresets == [set |-> FALSE, presets |-> << >>]

NoVariables == [current_scene_name |-> EmptyStr, is_streaming |-> "", is_recording |-> ""]

NoFeedbacks ==
  [recordingOn |-> "unset", streamingOn |-> "unset",
   sceneIsLive |-> [t \in TargetIds |-> "unset"],
   labelSceneName |-> [t \in TargetIds |-> [text |-> EmptyStr, style |-> "unset"]]]

Min(S) == CHOOSE x \in S : \A y \in S : x <= y

----------------------------------------------------------------------------
(* String comparison and sorting *)

Punctuation == <<" ", ":", "(", ")">>
Digits == <<"0", "1", "2", "3", "4", "5", "6", "7", "8", "9">>
Lower ==
  <<"a", "b", "c", "d", "e", "f", "g", "h", "i", "j", "k", "l", "m",
    "n", "o", "p", "q", "r", "s", "t", "u", "v", "w", "x", "y", "z">>
Upper ==
  <<"A", "B", "C", "D", "E", "F", "G", "H", "I", "J", "K", "L", "M",
    "N", "O", "P", "Q", "R", "S", "T", "U", "V", "W", "X", "Y", "Z">>

Chars(t) == {t[i] : i \in 1..Len(t)}
IndexOf(t, c) == CHOOSE i \in 1..Len(t) : t[i] = c
IsUpper(c) == c \in Chars(Upper)

\* the first-level collation weight: space and punctuation, then digits, then
\* letters, a letter and its capital weighing the same
PrimaryWeight(c) ==
  IF c \in Chars(Punctuation) THEN IndexOf(Punctuation, c)
  ELSE IF c \in Chars(Digits) THEN Len(Punctuation) + IndexOf(Digits, c)
  ELSE IF c \in Chars(Lower) THEN Len(Punctuation) + Len(Digits) + IndexOf(Lower, c)
  ELSE Len(Punctuation) + Len(Digits) + IndexOf(Upper, c)

\* String.prototype.localeCompare: first-level weights decide, a prefix sorts
\* before its extensions, and only then the small letter before the capital
localeCompare(a, b) ==
  LET n == IF Len(a) < Len(b) THEN Len(a) ELSE Len(b)
      d1 == {i \in 1..n : PrimaryWeight(a[i]) # PrimaryWeight(b[i])}
      d3 == {i \in 1..n : a[i] # b[i]}
  IN  IF d1 # {}
      THEN (IF PrimaryWeight(a[Min(d1)]) < PrimaryWeight(b[Min(d1)]) THEN -1 ELSE 1)
      ELSE IF Len(a) # Len(b) THEN (IF Len(a) < Len(b) THEN -1 ELSE 1)
      ELSE IF d3 # {} THEN (IF IsUpper(b[Min(d3)]) THEN -1 ELSE 1)
      ELSE 0

\* Array.prototype.sort with a comparator: stable
sort(t, compare(_, _)) ==
  LET n == Len(t)
      before(i) == {j \in 1..n : \/ compare(t[j], t[i]) < 0
                                 \/ compare(t[j], t[i]) = 0 /\ j < i}
  IN  [k \in 1..n |-> t[CHOOSE i \in 1..n : Cardinality(before(i)) = k - 1]]

\* id.slice(0, 8)
slice8(id) == SubSeq(id, 1, IF Len(id) < 8 THEN Len(id) ELSE 8)

\* obj.index ?? 9999
IndexOrDefault(obj) == IF obj.index = UNDEFINED THEN DefaultIndex ELSE obj.index

IsScene_AnyType(obj) == TRUE

IsScene(obj) == obj.type = "scene"

compareChoices(a, b) ==
  IF a.index = b.index THEN localeCompare(a.label, b.label) ELSE a.index - b.index

_getSceneChoices(items) ==
  LET scenes == SelectSeq(items, IsScene)
      out == [i \in 1..Len(scenes) |->
                [id |-> scenes[i].id,
                 label |-> IF scenes[i].name # EmptyStr
                           THEN scenes[i].name \o <<" ", "(">> \o slice8(scenes[i].id) \o <<")">>
                           ELSE scenes[i].id,
                 index |-> IndexOrDefault(scenes[i])]]
      sorted == sort(out, compareChoices)
  IN  [i \in 1..Len(sorted) |-> [id |-> sorted[i].id, label |-> sorted[i].label]]

----------------------------------------------------------------------------
(* The object graph as one record *)

Cur ==
  [phase |-> phase, qwc |-> qwc, actionDefs |-> actionDefs,
   feedbackDefs |-> feedbackDefs, presetDefs |-> presetDefs, config |-> config,
   ws |-> ws, transport |-> transport, meld |-> meld,
   sessionItems |-> sessionItems, isStreaming |-> isStreaming,
   isRecording |-> isRecording, status |-> status, url |-> url, sock |-> sock,
   chanSt |-> chanSt, subscribed |-> subscribed, proxy |-> proxy,
   variables |-> variables, fb |-> fb,
   registrations |-> {}, sent |-> << >>, logged |-> << >>, thrown |-> FALSE]

Commit(m, op) ==
  /\ phase' = m.phase
  /\ qwc' = m.qwc
  /\ actionDefs' = m.actionDefs
  /\ feedbackDefs' = m.feedbackDefs
  /\ presetDefs' = m.presetDefs
  /\ config' = m.config
  /\ ws' = m.ws
  /\ transport' = m.transport
  /\ meld' = m.meld
  /\ sessionItems' = m.sessionItems
  /\ isStreaming' = m.isStreaming
  /\ isRecording' = m.isRecording
  /\ status' = m.status
  /\ url' = m.url
  /\ sock' = m.sock
  /\ chanSt' = m.chanSt
  /\ subscribed' = m.subscribed
  /\ proxy' = m.proxy
  /\ variables' = m.variables
  /\ fb' = m.fb
  /\ registrations' = m.registrations
  /\ sent' = m.sent
  /\ logged' = m.logged
  /\ thrown' = m.thrown
  /\ lastOp' = op

\* an exception leaves the handler: what was done so far stays done
Throw(m) == [m EXCEPT !.thrown = TRUE]

updateStatus(m, s) == [m EXCEPT !.status = s]

log(m, level, text) == [m EXCEPT !.logged = Append(@, [level |-> level, text |-> text])]

----------------------------------------------------------------------------
(* Helpers over the mirror *)

\* the entry of the object with key id, if any
Lookup(items, id) == {i \in 1..Len(items) : items[i].id = id}

_getCurrentSceneId_AnyType(items) ==
  LET hits == {i \in 1..Len(items) : items[i].current}
  IN  IF hits = {} THEN EmptyStr ELSE items[Min(hits)].id

_getCurrentSceneId(items) ==
  LET hits == {i \in 1..Len(items) : items[i].type = "scene" /\ items[i].current}
  IN  IF hits = {} THEN EmptyStr ELSE items[Min(hits)].id

_getSceneNameById(items, id) ==
  LET at == Lookup(items, id)
  IN  IF at # {} /\ items[Min(at)].type = "scene"
      THEN (IF items[Min(at)].name # EmptyStr THEN items[Min(at)].name ELSE id)
      ELSE id

_getCurrentSceneName(items) == _getSceneNameById(items, _getCurrentSceneId(items))

OnOff(b) == IF b THEN "ON" ELSE "OFF"

_initVariables(m) ==
  [m EXCEPT !.variables =
     [current_scene_name |-> EmptyStr, is_streaming |-> "OFF", is_recording |-> "OFF"],
            !.registrations = @ \cup {"variables"}]

_updateVariables(m) ==
  [m EXCEPT !.variables =
     [current_scene_name |-> _getCurrentSceneName(m.sessionItems),
      is_streaming |-> OnOff(m.isStreaming),
      is_recording |-> OnOff(m.isRecording)],
            !.registrations = @ \cup {"variables"}]

----------------------------------------------------------------------------
(* Feedback callbacks; a JavaScript result is "true", "false", or "''" for the
   empty string that `a && b && c` yields when a or b is empty *)

recordingOn(m) == IF m.isRecording = TRUE THEN "true" ELSE "false"

streamingOn(m) == IF m.isStreaming = TRUE THEN "true" ELSE "false"

sceneIsLive_NoCompare(m, targetId) ==
  LET currentId == _getCurrentSceneId(m.sessionItems)
  IN  IF targetId = EmptyStr THEN "''"
      ELSE IF currentId = EmptyStr THEN "''"
      ELSE "true"

sceneIsLive(m, targetId) ==
  LET currentId == _getCurrentSceneId(m.sessionItems)
  IN  IF targetId = EmptyStr THEN "''"
      ELSE IF currentId = EmptyStr THEN "''"
      ELSE IF targetId = currentId THEN "true" ELSE "false"

\* with the preset's options: highlightLive, default colours
labelSceneName(m, sceneId) ==
  IF sceneId = EmptyStr THEN [text |-> EmptyStr, style |-> "null"]
  ELSE [text |-> _getSceneNameById(m.sessionItems, sceneId),
        style |-> IF _getCurrentSceneId(m.sessionItems) = sceneId THEN "live" ELSE "idle"]

Truthy(v) == v = "true"

FeedbackIds == {"labelSceneName", "sceneIsLive", "recordingOn", "streamingOn"}

\* the host re-evaluates every feedback instance of the named types
checkFeedbacks(m, ids) ==
  [m EXCEPT !.fb =
     [recordingOn |-> IF "recordingOn" \in ids THEN recordingOn(m) ELSE @.recordingOn,
      streamingOn |-> IF "streamingOn" \in ids THEN streamingOn(m) ELSE @.streamingOn,
      sceneIsLive |-> IF "sceneIsLive" \in ids
                      THEN [t \in TargetIds |-> sceneIsLive(m, t)] ELSE @.sceneIsLive,
      labelSceneName |-> IF "labelSceneName" \in ids
                         THEN [t \in TargetIds |-> labelSceneName(m, t)]
                         ELSE @.labelSceneName]]

\* the scene dropdown of the definitions: its choice list and default
Definitions(sceneChoices) ==
  [set |-> TRUE, choices |-> sceneChoices,
   default |-> IF Len(sceneChoices) > 0 THEN sceneChoices[1].id ELSE EmptyStr]

\* the descriptors of every mirror the remote side may report, computed once
SceneDropdownsOf == [items \in Mirrors |-> Definitions(_getSceneChoices(items))]

\* the same function, tabulated once: comparing a function value makes the
\* model checker enumerate it instead of evaluating it at every application
SceneDropdowns == IF SceneDropdownsOf = << >> THEN << >> ELSE SceneDropdownsOf

_initFeedbacks(m) ==
  [m EXCEPT !.feedbackDefs = SceneDropdowns[m.sessionItems],
            !.registrations = @ \cup {"feedbacks"}]

_initActions(m) ==
  [m EXCEPT !.actionDefs = SceneDropdowns[m.sessionItems],
            !.registrations = @ \cup {"actions"}]

compareScenes(a, b) ==
  IF a.index = b.index THEN localeCompare(a.name, b.name) ELSE a.index - b.index

Preset(category, name, text, actionId, sceneId) ==
  [category |-> category, name |-> name, text |-> text, actionId |-> actionId,
   sceneId |-> sceneId]

UtilityPresets ==
  << Preset("Meld Studio / Utility", "Toggle Recording", "REC", "toggleRecord", EmptyStr),
     Preset("Meld Studio / Utility", "Toggle Streaming", "STREAM", "toggleStream", EmptyStr) >>

PresetsOf(items) ==
  LET objs == SelectSeq(items, IsScene)
      scenes == sort([i \in 1..Len(objs) |->
                        [id |-> objs[i].id,
                         name |-> IF objs[i].name # EmptyStr THEN objs[i].name
                                  ELSE objs[i].id,
                         index |-> IndexOrDefault(objs[i])]],
                     compareScenes)
      presets == [i \in 1..Len(scenes) |->
                    Preset("Meld Studio / Scenes",
                           <<"S", "c", "e", "n", "e", ":", " ">> \o scenes[i].name,
                           scenes[i].name, "showScene", scenes[i].id)]
  IN  presets \o UtilityPresets

PresetDefinitionsOf ==
  [items \in Mirrors |-> [set |-> TRUE, presets |-> PresetsOf(items)]]

PresetDefinitions == IF PresetDefinitionsOf = << >> THEN << >> ELSE PresetDefinitionsOf

_initPresets(m) ==
  [m EXCEPT !.presetDefs = PresetDefinitions[m.sessionItems],
            !.registrations = @ \cup {"presets"}]

_refreshPresets(m) == _initPresets(m)

_refreshActionChoices(m) ==
  checkFeedbacks(_refreshPresets(_initFeedbacks(_initActions(m))),
                 {"labelSceneName", "sceneIsLive"})

----------------------------------------------------------------------------
(* The socket library and the transport wrapper *)

\* ws.close(): a CONNECTING socket aborts its handshake ('error', then 'close'),
\* an OPEN one starts the closing handshake; otherwise nothing happens
wsClose(sk, s) ==
  [sk EXCEPT ![s].st = IF @ = "connecting" THEN "aborting"
                       ELSE IF @ = "open" THEN "closing" ELSE @]

\* new WebSocket(url) throws on an address that is not a URL
ValidUrl(cfg) == cfg.host # "" /\ cfg.host # "undefined" /\ cfg.port > 0

FreeSockets == {s \in Sockets : sock[s].st = "none"}

\* transport.send (lines 280-287): this.ws is read when the frame is sent.
\* A send on a socket that is CONNECTING throws inside the try; on one that is
\* closing or closed the library either throws (logged) or drops the frame.
transport_send(m, frame, libThrows) ==
  IF m.ws = NULL THEN log(m, "error", "Transport send failed")
  ELSE IF m.sock[m.ws].st = "open"
       THEN [m EXCEPT !.sent = Append(@, [sock |-> m.ws, frame |-> frame]),
                      !.sock[m.ws].init =
                          IF frame.type = "init" THEN "sent" ELSE @]
  ELSE IF m.sock[m.ws].st = "connecting" \/ libThrows
       THEN log(m, "error", "Transport send failed")
  ELSE m

\* the library's two behaviours matter only when this.ws is closing or closed
LibChoices ==
  IF ws # NULL /\ sock[ws].st \in {"closing", "aborting", "failed", "closed"}
  THEN BOOLEAN ELSE {FALSE}

\* the wrapper object and everything only reachable through it is dropped
dropTransport(m) ==
  [m EXCEPT !.transport = NULL, !.chanSt = "null", !.subscribed = FALSE,
            !.proxy = NoProxy]

_disconnect_NoClose(m) ==
  [dropTransport(m) EXCEPT !.ws = NULL, !.meld = NULL]

_disconnect(m) ==
  LET closed == IF m.ws # NULL THEN [m EXCEPT !.sock = wsClose(@, m.ws)] ELSE m
  IN  [dropTransport(closed) EXCEPT !.ws = NULL, !.meld = NULL]

\* lines 270-288 and the registration of the three socket listeners
_connect(m, n) ==
  LET m1 == log(updateStatus(m, "connecting"), "info", "Connecting to Meld")
  IN  IF ~ValidUrl(m1.config) THEN Throw(m1)
      ELSE [dropTransport(m1) EXCEPT
              !.url = m1.config,
              !.sock[n] = [st |-> "connecting", listening |-> FALSE, init |-> "none"],
              !.ws = n,
              !.transport = n]

----------------------------------------------------------------------------
(* Command dispatch *)

InvokeFrame(name, args) == [type |-> "invokeMethod", method |-> name, args |-> args]

_mCall_NoGuard(m, name, args, libThrows) ==
  transport_send(m, InvokeFrame(name, args), libThrows)

_mCall_Disconnects(m, name, args, libThrows) ==
  IF ~IsObject(m.meld) THEN log(m, "warn", "Meld not ready")
  ELSE IF name \in m.proxy.methods
       THEN transport_send(m, InvokeFrame(name, args), libThrows)
       ELSE _disconnect(log(m, "error", "Unknown Meld function"))

_mCall(m, name, args, libThrows) ==
  IF ~IsObject(m.meld) THEN log(m, "warn", "Meld not ready")
  ELSE IF name \in m.proxy.methods
       THEN transport_send(m, InvokeFrame(name, args), libThrows)
       ELSE log(m, "error", "Unknown Meld function")

\* the option values an action callback passes on (lines 379-443)
ActionArgs(id, sceneId) ==
  CASE id \in {"showScene", "setStagedScene"} -> <<sceneId>>
    [] id = "toggleLayer" -> <<sceneId, <<"l">> >>
    [] id = "toggleEffect" -> <<sceneId, <<"l">>, <<"e">> >>
    [] id \in {"toggleMute", "toggleMonitor"} -> << <<"t">> >>
    [] id = "setGain" -> << <<"t">>, <<"0", ".", "5">> >>
    [] id = "sendCommand" -> << <<"c">> >>
    [] OTHER -> << >>

----------------------------------------------------------------------------
(* Frames the remote side may send *)

InitFlags == { <<"false", "false">>, <<"true", "undefined">>, <<"undefined", "true">> }

\* the handshake response: the objects it enumerates, with the property
\* values and methods of the object named meld
InitFrames ==
  { [type |-> "init", hasMeld |-> FALSE, session |-> FALSE, items |-> << >>,
     isStreaming |-> "undefined", isRecording |-> "undefined", methods |-> {}] }
  \cup
  { [type |-> "init", hasMeld |-> TRUE, session |-> TRUE, items |-> i,
     isStreaming |-> f[1], isRecording |-> f[2], methods |-> ms] :
       i \in ItemSets, f \in InitFlags, ms \in MethodSets }
  \cup
  { [type |-> "init", hasMeld |-> TRUE, session |-> FALSE, items |-> << >>,
     isStreaming |-> "false", isRecording |-> "true", methods |-> ms] : ms \in MethodSets }

\* a property update with its change signal
UpdateFrames ==
  [type : {"update"}, prop : {"session"}, items : ItemSets, val : {"undefined"}]
  \cup
  [type : {"update"}, prop : {"isStreaming", "isRecording"}, items : {<< >>}, val : JsVals]

----------------------------------------------------------------------------
(* The handshake-ready callback and the signal handlers (lines 299-350).
   A handler reads this.meld.<property> from the proxy's cache, which the
   frame being handled has just written: the value read is a parameter. *)

\* lines 321-331; hasSession: this.meld.session is an object
onSessionChanged(m, hasSession, items) ==
  LET m1 == [m EXCEPT !.sessionItems =
               IF IsObject(m.meld) /\ hasSession THEN items ELSE << >>]
  IN  checkFeedbacks(_refreshPresets(_refreshActionChoices(_updateVariables(m1))),
                     {"labelSceneName", "sceneIsLive"})

onIsStreamingChanged_BothFlags(m, cached) ==
  IF ~IsObject(m.meld) THEN Throw(m)
  ELSE checkFeedbacks(
         _updateVariables([m EXCEPT !.isStreaming = ToBoolean(cached),
                                    !.isRecording = ToBoolean(cached)]),
         {"streamingOn"})

\* lines 333-337
onIsStreamingChanged(m, cached) ==
  IF ~IsObject(m.meld) THEN Throw(m)
  ELSE checkFeedbacks(
         _updateVariables([m EXCEPT !.isStreaming = ToBoolean(cached)]),
         {"streamingOn"})

onIsRecordingChanged_Stale(m, cached) ==
  IF ~IsObject(m.meld) THEN Throw(m)
  ELSE checkFeedbacks(_updateVariables(m), {"recordingOn"})

\* lines 339-343
onIsRecordingChanged(m, cached) ==
  IF ~IsObject(m.meld) THEN Throw(m)
  ELSE checkFeedbacks(
         _updateVariables([m EXCEPT !.isRecording = ToBoolean(cached)]),
         {"recordingOn"})

\* lines 299-350; t is the channel whose handshake completed, frame its response
readyCallback(m, t, frame) ==
  LET has == frame.hasMeld
      m1 == log([m EXCEPT !.meld = IF has THEN t ELSE UNDEFINED],
                "info", "Meld WebChannel ready")
      m2 == [m1 EXCEPT !.sessionItems =
               IF has /\ frame.session THEN frame.items ELSE << >>]
      m3 == IF has
            THEN [m2 EXCEPT !.isStreaming = ToBoolean(frame.isStreaming),
                            !.isRecording = ToBoolean(frame.isRecording)]
            ELSE m2
      m4 == checkFeedbacks(_initPresets(_refreshActionChoices(_updateVariables(m3))),
                           FeedbackIds)
  IN  IF ~has THEN Throw(m4)
      ELSE updateStatus([m4 EXCEPT !.subscribed = TRUE], "ok")

----------------------------------------------------------------------------
(* QWebChannel on the transport wrapper *)

\* new QWebChannel(transport, callback): installs transport.onmessage and
\* sends the initialization request
newQWebChannel(m, libThrows) ==
  IF ~m.qwc THEN Throw(m)
  ELSE IF m.transport = NULL THEN Throw(m)
  ELSE transport_send([m EXCEPT !.chanSt = "init"], [type |-> "init"], libThrows)

\* transport.onmessage of the channel: the handshake response builds the
\* proxies and runs the callback; a property update refreshes the cache and
\* then emits the change signal to the connected handlers
channelMessage(m, frame) ==
  IF frame.type = "init"
  THEN IF m.chanSt # "init" THEN m
       ELSE readyCallback(
              [m EXCEPT !.chanSt = "ready",
                        !.proxy = [present |-> frame.hasMeld, methods |-> frame.methods]],
              m.transport, frame)
  ELSE IF m.chanSt # "ready" \/ ~m.proxy.present \/ ~m.subscribed THEN m
  ELSE CASE frame.prop = "session" -> onSessionChanged(m, TRUE, frame.items)
         [] frame.prop = "isStreaming" -> onIsStreamingChanged(m, frame.val)
         [] frame.prop = "isRecording" -> onIsRecordingChanged(m, frame.val)

----------------------------------------------------------------------------
(* Socket listeners registered by _connect *)

\* lines 290-351
onOpen(m, libThrows) ==
  IF m.ws = NULL THEN Throw(m)
  ELSE newQWebChannel([m EXCEPT !.sock[m.ws].listening = TRUE], libThrows)

\* lines 291-294
onMessage(m, frame) ==
  IF m.transport = NULL THEN Throw(m)
  ELSE IF m.chanSt = "null" THEN m
  ELSE channelMessage(m, frame)

onClose_ClearsMirror(m) ==
  log([dropTransport(updateStatus(m, "disconnected")) EXCEPT
         !.meld = NULL, !.sessionItems = << >>],
      "warn", "WebSocket closed")

\* lines 353-358
onClose(m) ==
  log([dropTransport(updateStatus(m, "disconnected")) EXCEPT !.meld = NULL],
      "warn", "WebSocket closed")

\* lines 360-363
onError(m) ==
  log(updateStatus(m, "error"), "error", "WebSocket error")

----------------------------------------------------------------------------
(* Host entry points *)

\* lines 31-33
WithDefaults(c) ==
  [host |-> IF c.host \in {"", "undefined"} THEN DefaultHost ELSE c.host,
   port |-> IF c.port <= 0 THEN DefaultPort ELSE c.port]

\* lines 30-61
init(m, c, loadOk, n) ==
  LET m1 == [m EXCEPT !.config = WithDefaults(c), !.phase = "running"]
  IN  IF ~loadOk
      THEN log(updateStatus(m1, "error"), "error", "Load qwebchannel.js failed")
      ELSE _connect(_initActions(_initFeedbacks(_initVariables([m1 EXCEPT !.qwc = TRUE]))), n)

\* lines 63-67; c = NoConfig stands for a missing argument
configUpdated(m, c, n) ==
  _connect(_disconnect([m EXCEPT !.config = IF c = NoConfig THEN @ ELSE c]), n)

\* lines 69-71
destroy(m) == _disconnect([m EXCEPT !.phase = "destroyed"])

Op(name, s, arg) == [op |-> name, sock |-> s, arg |-> arg]

----------------------------------------------------------------------------
(* Actions *)

Init ==
  /\ phase = "constructed"
  /\ qwc = FALSE
  /\ actionDefs = NoDefinitions
  /\ feedbackDefs = NoDefinitions
  /\ presetDefs = NoPresets
  /\ config = NoConfig
  /\ ws = NULL
  /\ transport = NULL
  /\ meld = NULL
  /\ sessionItems = << >>
  /\ isStreaming = FALSE
  /\ isRecording = FALSE
  /\ status = "none"
  /\ url = NoConfig
  /\ sock = [s \in Sockets |-> NoSocket]
  /\ chanSt = "null"
  /\ subscribed = FALSE
  /\ proxy = NoProxy
  /\ variables = NoVariables
  /\ fb = NoFeedbacks
  /\ lastOp = Op("constructor", NULL, << >>)
  /\ registrations = {}
  /\ sent = << >>
  /\ logged = << >>
  /\ thrown = FALSE

HostInit ==
  /\ phase = "constructed"
  /\ \E c \in ConfigInputs \cup {NoConfig}, loadOk \in BOOLEAN :
       Commit(init(Cur, c, loadOk, Min(FreeSockets)), Op("init", NULL, c))

HostConfigUpdated ==
  /\ phase = "running"
  /\ FreeSockets # {}
  /\ \E c \in ConfigInputs :
       Commit(configUpdated(Cur, c, Min(FreeSockets)), Op("configUpdated", NULL, c))

HostDestroy ==
  /\ phase = "running"
  /\ Commit(destroy(Cur), Op("destroy", NULL, << >>))

\* an action callback (lines 379-443)
HostAction ==
  /\ phase = "running"
  /\ actionDefs.set
  /\ \E p \in Presses, libThrows \in LibChoices :
       Commit(_mCall(Cur, p.id, ActionArgs(p.id, p.sceneId), libThrows),
              Op("action", NULL, p))

\* the host evaluates the feedback instances on the surface (lines 151-195)
HostFeedback ==
  /\ phase = "running"
  /\ feedbackDefs.set
  /\ Commit(checkFeedbacks(Cur, FeedbackIds), Op("feedback", NULL, << >>))

WsOpen(s) ==
  /\ sock[s].st = "connecting"
  /\ \E libThrows \in LibChoices :
       Commit(onOpen([Cur EXCEPT !.sock[s].st = "open"], libThrows),
              Op("open", s, << >>))

\* a frame of the given families arrives on socket s
Message(s, initFrames, updateFrames) ==
  /\ sock[s].st \in {"open", "closing"}
  /\ sock[s].listening
  /\ \/ /\ sock[s].init = "sent"
        /\ \E frame \in initFrames :
             Commit(onMessage([Cur EXCEPT !.sock[s].init = "answered"], frame),
                    Op("message", s, [type |-> "init", hasMeld |-> frame.hasMeld]))
     \/ /\ sock[s].init = "answered"
        /\ \E frame \in updateFrames :
             Commit(onMessage(Cur, frame),
                    Op("message", s, [type |-> "update", prop |-> frame.prop, val |-> frame.val]))

WsMessage(s) == Message(s, InitFrames, UpdateFrames)

\* the peer starts the closing handshake: no listener runs
WsPeerClose(s) ==
  /\ sock[s].st = "open"
  /\ Commit([Cur EXCEPT !.sock[s].st = "closing"], Op("peerClose", s, << >>))

WsError(s) ==
  /\ sock[s].st \in {"connecting", "open", "aborting"}
  /\ Commit(onError([Cur EXCEPT !.sock[s].st = "failed"]), Op("error", s, << >>))

WsClose(s) ==
  /\ sock[s].st \in {"closing", "failed"}
  /\ Commit(onClose([Cur EXCEPT !.sock[s] = ClosedSocket]), Op("close", s, << >>))

Next ==
  \/ HostInit
  \/ HostConfigUpdated
  \/ HostDestroy
  \/ HostAction
  \/ HostFeedback
  \/ \E s \in Sockets : WsOpen(s)
  \/ \E s \in Sockets : WsMessage(s)
  \/ \E s \in Sockets : WsPeerClose(s)
  \/ \E s \in Sockets : WsError(s)
  \/ \E s \in Sockets : WsClose(s)

Spec == Init /\ [][Next]_vars


\* One connection that stays up, with the remote side reporting every session
\* item collection over the pool: at the handshake and with sessionChanged
PoolInitFrames ==
  { [type |-> "init", hasMeld |-> TRUE, session |-> TRUE, items |-> i,
     isStreaming |-> "false", isRecording |-> "true", methods |-> ms] :
       i \in PoolItemSets, ms \in MethodSets }

PoolUpdateFrames ==
  [type : {"update"}, prop : {"session"}, items : PoolItemSets, val : {"undefined"}]

PoolMessage == Message(1, PoolInitFrames, PoolUpdateFrames)

GenNext ==
  \/ HostInit
  \/ WsOpen(1)
  \/ PoolMessage

GenSpec == Init /\ [][GenNext]_vars

\* the event loop dispatches the socket events that are already due: the
\* 'error' of an aborted handshake and the 'close' that follows an error or a
\* closing handshake
WsPending(s) ==
  \/ sock[s].st = "aborting" /\ WsError(s)
  \/ WsClose(s)

FairSpec == Spec /\ \A s \in Sockets : WF_vars(WsPending(s))

----------------------------------------------------------------------------
(* Properties *)

Connecting == {s \in Sockets : sock[s].st = "connecting"}

ActionRan == lastOp.op = "action"

\* the handler of the named change signal ran in the last step
SignalHandled(prop) ==
  /\ lastOp.op = "message"
  /\ lastOp.arg.type = "update"
  /\ lastOp.arg.prop = prop
  /\ subscribed
  /\ ~thrown

\* the response to the handshake request arrived on the current socket
HandshakeAnswered(hasMeld) ==
  /\ lastOp.op = "message"
  /\ lastOp.arg.type = "init"
  /\ lastOp.arg.hasMeld = hasMeld
  /\ lastOp.sock = ws

\* C1: a command dispatched while the proxy is not ready sends no frame,
\* raises nothing and writes exactly one log entry; and it is not replayed:
\* an invokeMethod frame is only ever written by the handler of the button
\* press that names its method, with the proxy ready.
C1_NotReadyDropped ==
  /\ (ActionRan /\ ~IsObject(meld)) =>
        (sent = << >> /\ ~thrown /\ Len(logged) = 1)
  /\ \A i \in 1..Len(sent) :
        sent[i].frame.type = "invokeMethod" =>
          (ActionRan /\ IsObject(meld) /\ sent[i].frame.method = lastOp.arg.id)

\* a button was pressed on an open socket whose handshake has not completed
C1_Witness ==
  /\ ActionRan
  /\ meld = NULL
  /\ ws # NULL
  /\ sock[ws].st = "open"
  /\ chanSt = "init"
  /\ logged = << [level |-> "warn", text |-> "Meld not ready"] >>

\* C2: after a close of the current socket that no teardown caused, a new
\* connection attempt to the configured endpoint is eventually started
\* (unless the owner tears the connection down first: configUpdated, destroy).
C2_ReconnectsAfterClose ==
  [](( /\ lastOp.op = "close"
       /\ lastOp.sock = ws
       /\ phase = "running"
       /\ qwc )
     => <>( \/ Connecting # {} /\ url = config
            \/ lastOp.op \in {"configUpdated", "destroy"} ))

\* C3: at most one connection attempt is pending at any time; a teardown
\* leaves none pending, and after destroy() no socket is created (a socket
\* is CONNECTING when it is created).
C3_OneAttemptPending ==
  /\ Cardinality(Connecting) <= 1
  /\ lastOp.op = "destroy" => Connecting = {}
  /\ phase = "destroyed" => (Connecting = {} /\ ws = NULL)
  /\ lastOp.op = "configUpdated" => Connecting \subseteq {ws}

\* destroy() ran while a connection attempt was pending
C3_Witness ==
  /\ lastOp.op = "destroy"
  /\ \E s \in Sockets : sock[s].st = "aborting"

\* configUpdated replaced a pending attempt by a new one
C3_WitnessReplaced ==
  /\ lastOp.op = "configUpdated"
  /\ \E s \in Sockets : sock[s].st = "aborting"
  /\ Cardinality(Connecting) = 1

\* C4: configUpdated with a usable endpoint tears down and reconnects: right
\* after it the proxy is null and exactly one attempt, addressed to the new
\* endpoint, is pending; the proxy stays null until the handshake of the
\* current socket completes; and once the new endpoint has answered the
\* handshake the status is Ok with a usable proxy.
C4_ConfigUpdatedReconnects ==
  /\ (lastOp.op = "configUpdated" /\ ValidUrl(config)) =>
        /\ meld = NULL
        /\ Connecting = {ws}
        /\ url = config
  /\ IsObject(meld) => (meld = ws /\ chanSt = "ready")
  /\ HandshakeAnswered(TRUE) => (status = "ok" /\ IsObject(meld))

\* C5: a handshake response without the object named meld fails the attempt:
\* the status becomes error and the callback does not go on with an
\* undefined proxy (nothing is raised from it, the mirror is not seeded).
C5_MissingRootFails ==
  (HandshakeAnswered(FALSE) /\ chanSt = "ready") =>
     (status = "error" /\ ~thrown /\ meld = NULL)

\* C6: no handler ends with an uncaught exception.
C6_NoUncaughtException == ~thrown

\* C7: the current scene id is empty or the id of an entry of type scene of
\* sessionItems.
C7_CurrentSceneInSet ==
  LET id == _getCurrentSceneId(sessionItems)
  IN  \/ id = EmptyStr
      \/ \E i \in 1..Len(sessionItems) :
           sessionItems[i].id = id /\ sessionItems[i].type = "scene"

\* the mirror holds a layer marked current and a scene marked current
C7_Witness ==
  /\ _getCurrentSceneId(sessionItems) # EmptyStr
  /\ \E i \in 1..Len(sessionItems) :
       sessionItems[i].type # "scene" /\ sessionItems[i].current

\* C8: sceneIsLive is true for a target only if the target is the current
\* scene id; it is not true for a target that is not in the mirror, nor for
\* any target when no scene is current; the values the host holds agree,
\* and evaluating the feedbacks raises nothing.
C8_SceneIsLive ==
  LET cur == _getCurrentSceneId(sessionItems)
  IN  /\ \A t \in TargetIds :
           /\ Truthy(sceneIsLive(Cur, t)) => (t = cur /\ t # EmptyStr)
           /\ Lookup(sessionItems, t) = {} => ~Truthy(sceneIsLive(Cur, t))
           /\ cur = EmptyStr => ~Truthy(sceneIsLive(Cur, t))
           /\ Truthy(fb.sceneIsLive[t]) => (t = cur /\ t # EmptyStr)
      /\ lastOp.op = "feedback" => ~thrown

\* the feedbacks were evaluated with scenes known and none of them current
C8_Witness ==
  /\ lastOp.op = "feedback"
  /\ _getCurrentSceneId(sessionItems) = EmptyStr
  /\ Lookup(sessionItems, IdB) # {}
  /\ fb.sceneIsLive[IdB] = "''"
  /\ fb.sceneIsLive[IdX] = "''"

\* C9: an action whose scene id is not in the mirror is a no-op: no frame is
\* sent and nothing is raised.
C9_StaleSceneNoop ==
  ( /\ ActionRan
    /\ lastOp.arg.id \in {"showScene", "setStagedScene", "toggleLayer"}
    /\ Lookup(sessionItems, lastOp.arg.sceneId) = {} )
  => (sent = << >> /\ ~thrown)

\* C10: a button press changes neither the mirror nor what the host shows;
\* after the isRecordingChanged (isStreamingChanged) handler has run, the
\* recordingOn (streamingOn) feedback and the is_recording (is_streaming)
\* variable equal the value the signal carried.
C10_SignalRoundTrip ==
  [][ /\ lastOp'.op = "action" =>
           UNCHANGED <<isRecording, isStreaming, sessionItems, fb, variables>>
      /\ SignalHandled("isRecording")' =>
           /\ fb'.recordingOn = (IF lastOp'.arg.val = "true" THEN "true" ELSE "false")
           /\ variables'.is_recording = (IF lastOp'.arg.val = "true" THEN "ON" ELSE "OFF")
      /\ SignalHandled("isStreaming")' =>
           /\ fb'.streamingOn = (IF lastOp'.arg.val = "true" THEN "true" ELSE "false")
           /\ variables'.is_streaming = (IF lastOp'.arg.val = "true" THEN "ON" ELSE "OFF")
    ]_vars

\* isRecordingChanged with value true was handled on a ready connection
C10_Witness ==
  /\ SignalHandled("isRecording")
  /\ lastOp.arg.val = "true"
  /\ status = "ok"
  /\ "toggleRecord" \in proxy.methods
  /\ fb.recordingOn = "true"
  /\ variables.is_recording = "ON"

\* what _updateVariables publishes for the current mirror
VariablesOfMirror ==
  [current_scene_name |-> _getCurrentSceneName(sessionItems),
   is_streaming |-> OnOff(isStreaming),
   is_recording |-> OnOff(isRecording)]

\* C11: once init has loaded the channel library and returned, the descriptors
\* last registered are the regeneration from the current mirror: the scene
\* choices of actions and feedbacks, the preset list (one per scene plus the
\* two utility presets), and the published variables.
C11_DescriptorsRegenerated ==
  (phase = "running" /\ qwc) =>
     /\ actionDefs = SceneDropdowns[sessionItems]
     /\ feedbackDefs = SceneDropdowns[sessionItems]
     /\ presetDefs = PresetDefinitions[sessionItems]
     /\ variables = VariablesOfMirror

\* the descriptor kinds regenerated from the scene collection
SceneDescriptors == {"actions", "feedbacks", "presets"}

\* the registered action, feedback and preset descriptors are the
\* regeneration from the mirror
DescriptorsCurrent ==
  /\ actionDefs = SceneDropdowns[sessionItems]
  /\ feedbackDefs = SceneDropdowns[sessionItems]
  /\ presetDefs = PresetDefinitions[sessionItems]

Candidates(command) ==
  IF command = "toggleStream" THEN <<"toggleStream", "toggleStreaming">>
  ELSE <<command>>

\* a command was dispatched on a ready proxy over an open socket
DispatchedReady ==
  /\ ActionRan
  /\ IsObject(meld)
  /\ ws # NULL
  /\ sock[ws].st = "open"

\* C13: a command dispatched on a ready proxy invokes exactly one method, the
\* first of its candidate names that the proxy exposes; a command whose
\* primary name is absent but whose alias is present is still delivered.
C13_FirstPresentWins ==
  DispatchedReady =>
    LET names == Candidates(lastOp.arg.id)
        present == {i \in 1..Len(names) : names[i] \in proxy.methods}
    IN  present # {} =>
          /\ Len(sent) = 1
          /\ sent[1].frame.type = "invokeMethod"
          /\ sent[1].frame.method = names[Min(present)]

\* the last handler was a command naming a method the ready proxy lacks
UnknownMethodDropped ==
  /\ ActionRan
  /\ IsObject(meld)
  /\ lastOp.arg.id \notin proxy.methods

\* C14: a command naming a method the ready proxy does not expose is dropped
\* with one error log entry: no frame is sent, nothing is raised, and the
\* socket, transport, proxy, status and mirror are unchanged; the next
\* command naming an exposed method, on the same open connection, is sent.
C14_UnknownMethodDropped ==
  [][ /\ (ActionRan' /\ IsObject(meld) /\ lastOp'.arg.id \notin proxy.methods) =>
           /\ sent' = << >>
           /\ ~thrown'
           /\ logged' = << [level |-> "error", text |-> "Unknown Meld function"] >>
           /\ UNCHANGED <<ws, transport, meld, status, sock, chanSt, subscribed, proxy>>
           /\ UNCHANGED <<sessionItems, isRecording, isStreaming>>
      /\ ( /\ UnknownMethodDropped
           /\ ActionRan'
           /\ lastOp'.arg.id \in proxy.methods
           /\ ws # NULL
           /\ sock[ws].st = "open" ) =>
           /\ Len(sent') = 1
           /\ sent'[1].sock = ws
           /\ sent'[1].frame.type = "invokeMethod"
           /\ sent'[1].frame.method = lastOp'.arg.id
    ]_vars

\* Toggle Stream was pressed on a ready connection whose proxy lacks it
C14_Witness ==
  /\ UnknownMethodDropped
  /\ lastOp.arg.id = "toggleStream"
  /\ "toggleRecord" \in proxy.methods
  /\ status = "ok"
  /\ sock[ws].st = "open"
  /\ logged = << [level |-> "error", text |-> "Unknown Meld function"] >>

\* the entries of the mirror that are scenes
SceneEntries == {i \in 1..Len(sessionItems) : sessionItems[i].type = "scene"}

\* how many entries of a registered list carry the id
ChoicesWithId(id) ==
  Cardinality({k \in 1..Len(actionDefs.choices) : actionDefs.choices[k].id = id})

ScenePresetsWithId(id) ==
  Cardinality({k \in 1..Len(presetDefs.presets) :
                 /\ presetDefs.presets[k].category = "Meld Studio / Scenes"
                 /\ presetDefs.presets[k].actionId = "showScene"
                 /\ presetDefs.presets[k].sceneId = id})

\* C15: once the descriptors are generated from a session item collection,
\* each item of type scene has exactly one scene choice and exactly one
\* preset, an item of another type has none, and the preset list has
\* (number of scenes + 2) entries, the last two being the toggle-recording
\* and toggle-streaming utility presets.
C15_OnePerScene ==
  presetDefs.set =>
    LET n == Cardinality(SceneEntries)
        presets == presetDefs.presets
    IN  /\ \A i \in 1..Len(sessionItems) :
             /\ ChoicesWithId(sessionItems[i].id) = (IF i \in SceneEntries THEN 1 ELSE 0)
             /\ ScenePresetsWithId(sessionItems[i].id) = (IF i \in SceneEntries THEN 1 ELSE 0)
        /\ Len(actionDefs.choices) = n
        /\ feedbackDefs.choices = actionDefs.choices
        /\ Len(presets) = n + 2
        /\ \A k \in 1..n : presets[k].category = "Meld Studio / Scenes"
        /\ presets[n + 1].category = "Meld Studio / Utility"
        /\ presets[n + 1].actionId = "toggleRecord"
        /\ presets[n + 2].category = "Meld Studio / Utility"
        /\ presets[n + 2].actionId = "toggleStream"

\* descriptors generated from two scenes of the same name and a layer
C15_Witness ==
  /\ presetDefs.set
  /\ Len(sessionItems) = 3
  /\ Cardinality(SceneEntries) = 2
  /\ \E i, j \in SceneEntries :
       /\ i # j
       /\ sessionItems[i].name = sessionItems[j].name
       /\ sessionItems[i].id # sessionItems[j].id
  /\ Len(presetDefs.presets) = 4

\* comparison of two strings without regard to case
FoldedDiffs(a, b) ==
  {i \in 1..(IF Len(a) < Len(b) THEN Len(a) ELSE Len(b)) :
     PrimaryWeight(a[i]) # PrimaryWeight(b[i])}

FoldedEqual(a, b) == Len(a) = Len(b) /\ FoldedDiffs(a, b) = {}

FoldedLess(a, b) ==
  IF FoldedDiffs(a, b) # {}
  THEN PrimaryWeight(a[Min(FoldedDiffs(a, b))]) < PrimaryWeight(b[Min(FoldedDiffs(a, b))])
  ELSE Len(a) < Len(b)

\* scene x comes before scene y by (order, name without regard to case, id)
OrderNameIdBefore(x, y) ==
  \/ IndexOrDefault(x) < IndexOrDefault(y)
  \/ /\ IndexOrDefault(x) = IndexOrDefault(y)
     /\ FoldedLess(x.name, y.name)
  \/ /\ IndexOrDefault(x) = IndexOrDefault(y)
     /\ FoldedEqual(x.name, y.name)
     /\ localeCompare(x.id, y.id) < 0

\* the position of the scene in the registered lists
ChoicePosition(id) ==
  CHOOSE k \in 1..Len(actionDefs.choices) : actionDefs.choices[k].id = id

PresetPosition(id) ==
  CHOOSE k \in 1..Len(presetDefs.presets) : presetDefs.presets[k].sceneId = id

ChoicesInOrder ==
  \A i, j \in SceneEntries :
    ( /\ sessionItems[i].name # EmptyStr
      /\ sessionItems[j].name # EmptyStr
      /\ OrderNameIdBefore(sessionItems[i], sessionItems[j]) )
    => ChoicePosition(sessionItems[i].id) < ChoicePosition(sessionItems[j].id)

PresetsInOrder ==
  \A i, j \in SceneEntries :
    ( /\ sessionItems[i].name # EmptyStr
      /\ sessionItems[j].name # EmptyStr
      /\ OrderNameIdBefore(sessionItems[i], sessionItems[j]) )
    => PresetPosition(sessionItems[i].id) < PresetPosition(sessionItems[j].id)

\* C16: the generated scene choices and the generated scene presets list the
\* (named) scenes by order ascending, then name without regard to case, then
\* id, whatever the enumeration order of the session items; so both lists
\* present the scenes in the same relative order.
C16_SortedByOrderNameId ==
  presetDefs.set => (ChoicesInOrder /\ PresetsInOrder)

\* the scenario's session items: A "Intro (abc12345)" order 0, B "Outro" order 1
TaggedScenario ==
  { << Item(IdA, "scene", IntroTagged, 0, FALSE), Item(IdB, "scene", Outro, 1, FALSE) >>,
    << Item(IdB, "scene", Outro, 1, FALSE), Item(IdA, "scene", IntroTagged, 0, FALSE) >> }

\* C17: for the scenes {A: "Intro (abc12345)" order 0, B: "Outro" order 1}
\* the generator yields the scene entries [A, B] with the display names
\* "Intro" and "Outro" (the trailing parenthetical stripped, the ids kept),
\* and the two scene presets in that order with the same display names.
C17_NameCleaned ==
  (presetDefs.set /\ sessionItems \in TaggedScenario) =>
     /\ Len(actionDefs.choices) = 2
     /\ actionDefs.choices[1] = [id |-> IdA, label |-> Intro]
     /\ actionDefs.choices[2] = [id |-> IdB, label |-> Outro]
     /\ Len(presetDefs.presets) = 4
     /\ presetDefs.presets[1].sceneId = IdA
     /\ presetDefs.presets[1].text = Intro
     /\ presetDefs.presets[2].sceneId = IdB
     /\ presetDefs.presets[2].text = Outro

\* C18: a close or error event of a socket that is no longer this.ws (it was
\* superseded by configUpdated) leaves the newer connection alone: transport,
\* proxy and status are unchanged.
C18_SupersededEventsIgnored ==
  [][ ( /\ lastOp'.op \in {"close", "error"}
        /\ ws # NULL
        /\ lastOp'.sock # ws )
      => UNCHANGED <<ws, transport, meld, status, chanSt, subscribed, proxy>>
    ]_vars

\* C19: a frame received on a socket is handed only to the channel created
\* for that socket: the 'message' listener never finds this.transport null,
\* and the transport whose onmessage it calls is the one created together
\* with the socket the frame arrived on.
C19_FrameToOwnTransport ==
  [][ /\ lastOp'.op = "message" => transport # NULL
      /\ ( /\ lastOp'.op = "message"
           /\ transport # NULL
           /\ chanSt # "null" )
         => transport = lastOp'.sock
    ]_vars

\* C20: the status reported to the host is Ok only if the proxy is ready:
\* this.meld is an object and belongs to the current socket; so once the
\* proxy is invalidated (close, _disconnect, destroy) the status is not Ok.
C20_OkOnlyIfReady ==
  status = "ok" => (IsObject(meld) /\ ws # NULL /\ meld = ws)

Mirror == <<sessionItems, isRecording, isStreaming>>

Published == <<variables, actionDefs, feedbackDefs, presetDefs>>

\* handlers that tear the connection down: the socket's 'close' and 'error'
\* listeners, destroy, and configUpdated (the only other caller of _disconnect)
TeardownOps == {"close", "error", "destroy", "configUpdated"}

\* C21: a socket close, a socket error, _disconnect and destroy leave the
\* mirror (sessionItems, _isRecording, _isStreaming), the published variables
\* and the registered descriptors unchanged and register nothing; the mirror
\* changes only when a frame is handled, so the last known scenes and flags
\* stay reported while disconnected.
C21_TeardownKeepsMirror ==
  [][ /\ lastOp'.op \in TeardownOps
         => (UNCHANGED <<Mirror, Published>> /\ registrations' = {})
      /\ Mirror' # Mirror => lastOp'.op = "message"
    ]_vars

\* the socket closed after a handshake that reported scenes and a live stream:
\* the proxy is gone, the scene name and the flag are still published
C21_Witness ==
  /\ lastOp.op = "close"
  /\ meld = NULL
  /\ status = "disconnected"
  /\ sessionItems # << >>
  /\ isStreaming
  /\ variables.current_scene_name # EmptyStr
  /\ variables = VariablesOfMirror
  /\ presetDefs.set

====
